---- MODULE Spec2Model ----
(***************************************************************************)
(* Model of the Slack reaction -> Readwise bridge (bedtime-reading):       *)
(*   src/slack_handlers.py  EventDeduplicator, handle_reaction,            *)
(*                          check_url_exists, save_url_to_readwise         *)
(*   src/utils.py           extract_url_from_message, sanitize_url,        *)
(*                          is_valid_url, extract_and_validate_url         *)
(*   src/config.py          EMOJI_CONFIGS                                  *)
(*                                                                         *)
(* Strings are sequences of one-character strings, so that the regular     *)
(* expression and the string methods are computed character by character.  *)
(***************************************************************************)
EXTENDS Integers, Sequences, FiniteSets, TLC

VARIABLES
    now,               \* the wall clock read by time.time()
    processed_events,  \* EventDeduplicator.processed_events: event_key -> time
    last_accept,       \* history: event_key -> time of its last accepted check (-1: never)
    loop,              \* the coroutine that occupies the asyncio event loop, or NoProc
    pc,                \* per handler invocation: where its coroutine stands
    event,             \* per invocation: the event payload it was dispatched with
    current_time,      \* per invocation: wrapper's local current_time (-1: not read)
    url,               \* per invocation: result of extract_and_validate_url
    pages,             \* per invocation: pages requested by check_url_exists
    next_cursor,       \* per invocation: check_url_exists's local next_cursor
    url_exists,        \* per invocation: value returned by check_url_exists
    save_result,       \* per invocation: (success, result) of save_url_to_readwise
    calls,             \* per invocation: outbound calls issued, in order
    logs,              \* per invocation: log records written, in order
    message,           \* extraction harness: the message under extraction
    extracted,         \* extraction harness: result of extract_url_from_message
    raw,               \* normalization harness: the raw URL string
    sanitize_out,      \* normalization harness: result of sanitize_url
    validate_out,      \* normalization harness: the validated URL, or None
    command,           \* /retrieve-articles: the command payload
    rpc,               \* /retrieve-articles: where handle_retrieve_command stands
    parsed_date,       \* /retrieve-articles: the day dateparser.parse gave (-2: not called)
    responses,         \* /retrieve-articles: the responses delivered by respond
    slack_failed,      \* /retrieve-articles: an ack or respond call raised
    list_call,         \* the calls of get_tagged_articles_since_date: (tag, since_date)
    library,           \* the backend: the documents it holds
    next_page_cursor,  \* get_tagged_articles_since_date: its local next_page_cursor
    articles,          \* get_tagged_articles_since_date: its local articles
    list_failed        \* get_tagged_articles_since_date: a backend call failed

\* the variables of the harnesses of the pure functions
extractvars == <<message, extracted>>
normalizevars == <<raw, sanitize_out, validate_out>>
retrievevars == <<command, rpc, parsed_date, responses, slack_failed, list_call>>
listvars == <<library, next_page_cursor, articles, list_failed>>
harnessvars == <<extractvars, normalizevars, retrievevars, listvars>>

vars == <<now, processed_events, last_accept, loop, pc, event, current_time, url,
          pages, next_cursor, url_exists, save_result, calls, logs, harnessvars>>

sysvars == <<now, processed_events, last_accept, loop, pc, event, current_time, url,
             pages, next_cursor, url_exists, save_result, calls, logs>>

(***************************************************************************)
(* Characters and strings                                                  *)
(***************************************************************************)
Lower == {"a","b","c","d","e","f","g","h","i","j","k","l","m",
          "n","o","p","q","r","s","t","u","v","w","x","y","z"}
Upper == {"A","B","C","D","E","F","G","H","I","J","K","L","M",
          "N","O","P","Q","R","S","T","U","V","W","X","Y","Z"}
Digit == {"0","1","2","3","4","5","6","7","8","9"}

\* the class range $-_ of the pattern: code points 0x24 .. 0x5F
DollarToUnderscore ==
    {"$","%","&","'","(",")","*","+",",","-",".","/",":",";","<","=",">","?","@",
     "[","\\","]","^","_"} \cup Digit \cup Upper

\* (?:[a-zA-Z]|[0-9]|[$-_@.&+]|[!*\\(\\),]|(?:%[0-9a-fA-F][0-9a-fA-F])): every
\* alternative consumes characters of this set, and % with two hex digits is
\* three characters of it, so a token is a maximal run of these characters
UrlTokenChar ==
    Lower \cup Upper \cup Digit \cup DollarToUnderscore \cup {"@",".","&","+"}
          \cup {"!","*","\\","(",")",","}

\* str.strip() with no argument removes these
Whitespace == {" ", "\t", "\n", "\r"}

HttpPrefix == <<"h","t","t","p",":","/","/">>
HttpsPrefix == <<"h","t","t","p","s",":","/","/">>

\* str.startswith(pre), from index i
StartsWithAt(s, i, pre) ==
    /\ i + Len(pre) - 1 <= Len(s)
    /\ \A j \in 1..Len(pre) : s[i + j - 1] = pre[j]

StartsWith(s, pre) == StartsWithAt(s, 1, pre)

\* http[s]?:// at index i: the index after it, or 0
SchemeEnd(s, i) ==
    IF StartsWithAt(s, i, HttpsPrefix) THEN i + Len(HttpsPrefix)
    ELSE IF StartsWithAt(s, i, HttpPrefix) THEN i + Len(HttpPrefix)
    ELSE 0

\* the greedy (...)+ : the index after the maximal run of token characters at j
RECURSIVE RunEnd(_, _)
RunEnd(s, j) ==
    IF j <= Len(s) /\ s[j] \in UrlTokenChar THEN RunEnd(s, j + 1) ELSE j

\* the pattern without its final +: one character after the scheme
MatchEnd_OneChar(s, i) ==
    LET j == SchemeEnd(s, i)
    IN  IF j = 0 THEN 0
        ELSE IF RunEnd(s, j) = j THEN 0
        ELSE j + 1

\* a match of the whole pattern at index i: the index after it, or 0
MatchEnd(s, i) ==
    LET j == SchemeEnd(s, i)
    IN  IF j = 0 THEN 0
        ELSE IF RunEnd(s, j) = j THEN 0
        ELSE RunEnd(s, j)

\* re.findall: the non-overlapping matches, leftmost first
RECURSIVE FindAllFrom(_, _)
FindAllFrom(s, i) ==
    IF i > Len(s) THEN <<>>
    ELSE IF MatchEnd(s, i) # 0
         THEN <<SubSeq(s, i, MatchEnd(s, i) - 1)>> \o FindAllFrom(s, MatchEnd(s, i))
         ELSE FindAllFrom(s, i + 1)

\* a call of re.findall: either the list of matches or re.error when the
\* pattern does not compile
Matches(ms) == [err |-> FALSE, matches |-> ms]
ReError == [err |-> TRUE, matches |-> <<>>]

\* utils.py line 75: the pattern applied to message text
TextPattern(text) == Matches(FindAllFrom(text, 1))

\* utils.py line 82: the pattern applied to attachment text ends in
\* [0-9a-F]: "a-F" is a bad character range, re.error at every call
AttachmentPattern(text) == ReError

\* utils.py line 90: the pattern applied to block text has the same bad range
BlockPattern(text) == ReError

(***************************************************************************)
(* extract_url_from_message                                                *)
(***************************************************************************)
\* results of the extraction: a value, None, or an exception raised
Value(v) == [tag |-> "value", val |-> v]
None == [tag |-> "None", val |-> <<>>]
Raised(exc) == [tag |-> "raise", val |-> <<exc>>]

\* for attachment in attachments: ... (lines 80-84)
RECURSIVE ScanAttachments(_, _)
ScanAttachments(attachments, i) ==
    IF i > Len(attachments) THEN None
    ELSE LET attachment_urls == AttachmentPattern(attachments[i].text)
         IN  IF attachment_urls.err THEN Raised("re.error")
             ELSE IF attachment_urls.matches # <<>>
                  THEN Value(attachment_urls.matches[1])
                  ELSE ScanAttachments(attachments, i + 1)

\* for block in blocks: if block.get("type") == "section": ... (lines 87-92)
RECURSIVE ScanBlocks(_, _)
ScanBlocks(blocks, i) ==
    IF i > Len(blocks) THEN None
    ELSE IF blocks[i].type = "section"
         THEN LET block_urls == BlockPattern(blocks[i].text.text)
              IN  IF block_urls.err THEN Raised("re.error")
                  ELSE IF block_urls.matches # <<>>
                       THEN Value(block_urls.matches[1])
                       ELSE ScanBlocks(blocks, i + 1)
         ELSE ScanBlocks(blocks, i + 1)

extract_url_from_message(m) ==
    LET urls == TextPattern(m.text)
    IN  IF urls.err THEN Raised("re.error")
        ELSE IF urls.matches # <<>> THEN Value(urls.matches[1])
        ELSE LET a == ScanAttachments(m.attachments, 1)
             IN  IF a # None THEN a
                 ELSE ScanBlocks(m.blocks, 1)

(***************************************************************************)
(* sanitize_url, is_valid_url, extract_and_validate_url                    *)
(***************************************************************************)
\* str.rstrip(chars)
RECURSIVE RStripChars(_, _)
RStripChars(s, chars) ==
    IF s # <<>> /\ s[Len(s)] \in chars
    THEN RStripChars(SubSeq(s, 1, Len(s) - 1), chars)
    ELSE s

\* str.lstrip(chars)
RECURSIVE LStripChars(_, _)
LStripChars(s, chars) ==
    IF s # <<>> /\ s[1] \in chars THEN LStripChars(Tail(s), chars) ELSE s

\* str.strip()
Strip(s) == LStripChars(RStripChars(s, Whitespace), Whitespace)

\* the scheme-less url coerced to https:// instead of http://
sanitize_url_https(u) ==
    LET sanitized == Strip(RStripChars(u, {">"}))
    IN  IF ~(StartsWith(sanitized, HttpPrefix) \/ StartsWith(sanitized, HttpsPrefix))
        THEN HttpsPrefix \o sanitized
        ELSE sanitized

sanitize_url(u) ==
    LET sanitized == Strip(RStripChars(u, {">"}))
    IN  IF ~(StartsWith(sanitized, HttpPrefix) \/ StartsWith(sanitized, HttpsPrefix))
        THEN HttpPrefix \o sanitized
        ELSE sanitized

\* index of the first element of s, from index i on, that is in chars; Len(s)+1 if none
RECURSIVE FindFirst(_, _, _)
FindFirst(s, i, chars) ==
    IF i > Len(s) THEN Len(s) + 1
    ELSE IF s[i] \in chars THEN i
    ELSE FindFirst(s, i + 1, chars)

SchemeChars == Lower \cup Upper \cup Digit \cup {"+", "-", "."}

\* urllib.parse.urlparse, the two fields is_valid_url reads: the scheme is
\* what precedes the first ":" when it is made of scheme characters and
\* starts with a letter; the netloc follows "//" up to the first of / ? #.
\* A netloc with one of "[" "]" but not the other raises ValueError. Tab,
\* carriage return and newline are removed from the string first.
urlparse(u0) ==
    LET u == SelectSeq(u0, LAMBDA c : c \notin {"\t", "\r", "\n"})
        colon == FindFirst(u, 1, {":"})
        hasScheme == /\ colon > 1
                     /\ colon <= Len(u)
                     /\ u[1] \in Lower \cup Upper
                     /\ \A j \in 1..(colon - 1) : u[j] \in SchemeChars
        scheme == IF hasScheme THEN SubSeq(u, 1, colon - 1) ELSE <<>>
        rest == IF hasScheme THEN SubSeq(u, colon + 1, Len(u)) ELSE u
        hasNetloc == StartsWith(rest, <<"/", "/">>)
        delim == FindFirst(rest, 3, {"/", "?", "#"})
        netloc == IF hasNetloc THEN SubSeq(rest, 3, delim - 1) ELSE <<>>
        opens == \E j \in 1..Len(netloc) : netloc[j] = "["
        closes == \E j \in 1..Len(netloc) : netloc[j] = "]"
    IN  [scheme |-> scheme, netloc |-> netloc, error |-> (opens # closes)]

is_valid_url(u) ==
    LET result == urlparse(u)
    IN  IF result.error THEN FALSE
        ELSE result.scheme # <<>> /\ result.netloc # <<>>

\* lines 68-71: the raw url sanitized, then kept if it is valid
validate_and_normalize(u) ==
    LET sanitized_url == sanitize_url(u)
    IN  IF is_valid_url(sanitized_url) THEN Value(sanitized_url) ELSE None

extract_and_validate_url(m) ==
    LET u == extract_url_from_message(m)
    IN  IF u.tag = "raise" THEN u
        ELSE IF u.tag = "value" /\ u.val # <<>>
             THEN validate_and_normalize(u.val)
             ELSE None

(***************************************************************************)
(* Messages of the extraction harness                                      *)
(***************************************************************************)
MaxFrags == 3
MaxAttachments == 2
MaxBlocks == 1

\* message texts are concatenations of these pieces
Fragments == {HttpPrefix, HttpsPrefix, <<"a">>, <<">">>, <<" ">>}

RECURSIVE Concats(_)
Concats(n) ==
    IF n = 0 THEN {<<>>}
    ELSE Concats(n - 1) \cup {t \o f : t \in Concats(n - 1), f \in Fragments}

Texts == Concats(MaxFrags)

\* "see http://foo.io"
SeeFooIo == <<"s","e","e"," ">> \o HttpPrefix \o <<"f","o","o",".","i","o">>
FooIo == HttpPrefix \o <<"f","o","o",".","i","o">>
\* "http://b.io"
BIo == HttpPrefix \o <<"b",".","i","o">>

AttachmentTexts == {<<"a">>, SeeFooIo}
BlockTexts == {<<"a">>, BIo}

SeqsUpTo(S, n) == UNION {[1..k -> S] : k \in 0..n}

AttachmentSet == [text : AttachmentTexts]
BlockSet == [type : {"section"}, text : [text : BlockTexts]]
                \cup [type : {"divider"}, text : [text : {BIo}]]

Messages == [text : Texts,
             attachments : SeqsUpTo(AttachmentSet, MaxAttachments),
             blocks : SeqsUpTo(BlockSet, MaxBlocks)]

EmptyMessage == [text |-> <<>>, attachments |-> <<>>, blocks |-> <<>>]
Pending == [tag |-> "pending", val |-> <<>>]

(***************************************************************************)
(* Raw strings of the normalization harness                                *)
(***************************************************************************)
MaxRawFrags == 3

\* raw strings are concatenations of these pieces, and the named examples
RawFragments == {HttpPrefix, HttpsPrefix, <<"a">>, <<">">>, <<" ">>, <<"/">>}

RECURSIVE ConcatsOf(_, _)
ConcatsOf(F, n) ==
    IF n = 0 THEN {<<>>}
    ELSE ConcatsOf(F, n - 1) \cup {t \o f : t \in ConcatsOf(F, n - 1), f \in F}

\* "not a url"
NotAUrl == <<"n","o","t"," ","a"," ","u","r","l">>
\* "example.com/x"
ExampleComX == <<"e","x","a","m","p","l","e",".","c","o","m","/","x">>
\* "https://example.com/a>"
ExampleComA == HttpsPrefix \o <<"e","x","a","m","p","l","e",".","c","o","m","/","a",">">>

RawStrings == ConcatsOf(RawFragments, MaxRawFrags) \cup {NotAUrl, ExampleComX, ExampleComA}

(***************************************************************************)
(* Configuration, events and the collaborators' answers                    *)
(***************************************************************************)
TTL == 60          \* @deduplicator.deduplicate(ttl=60)
Delta == 30        \* the clock advances in steps of Delta
MaxTime == 90      \* the clock is observed up to MaxTime
MaxPages == 1      \* continuation pages the listing may announce per check

\* handler invocations that may be in flight together
Procs == {"p1", "p2"}
NoProc == "none"

\* settings.EMOJI_CONFIGS as parse_emoji_config builds it from
\* EMOJI_CONFIGS="star:Favourites:Added to favourites"
EMOJI_CONFIGS ==
    [e \in {"star"} |-> [emoji |-> e, label |-> "Favourites",
                          message |-> "Added to favourites"]]

get_emoji_configs == EMOJI_CONFIGS

\* every reaction taken for a trigger
get_trigger_emojis_any == {"star", "eyes"}

\* trigger_emojis = get_trigger_emojis(), evaluated once at import
get_trigger_emojis == DOMAIN EMOJI_CONFIGS

\* the configured message ignored
get_emoji_message_default(emoji) == "Saved article to your reading list"

get_emoji_message(emoji) ==
    IF emoji \in DOMAIN EMOJI_CONFIGS
    THEN EMOJI_CONFIGS[emoji].message
    ELSE "Saved article to your reading list"

\* reaction_added payloads: well-formed ones, one without event_ts, one
\* without reaction
Reactions == {"star", "eyes"}
EventTs == {"e1", "e2"}
WellFormedEvents ==
    {[reaction |-> r, item |-> [channel |-> "C1", ts |-> "m1"], event_ts |-> t] :
        r \in Reactions, t \in EventTs}
MalformedEvents ==
    {[reaction |-> "star", item |-> [channel |-> "C1", ts |-> "m1"]],
     [item |-> [channel |-> "C1", ts |-> "m1"], event_ts |-> "e1"]}
Events == WellFormedEvents \cup MalformedEvents
NoEvent == [none |-> TRUE]

\* f"{event['event_ts']}:{event['item']['channel']}:{event['item']['ts']}"
event_key(e) == <<e.event_ts, ":", e.item.channel, ":", e.item.ts>>

Keys == {event_key(e) : e \in WellFormedEvents}

\* messages the channel history may hold
UrlMessage ==
    [text |-> <<"s", " ">> \o HttpsPrefix \o <<"a", ".", "i", "o", ">">>,
     attachments |-> <<>>, blocks |-> <<>>]
NoUrlMessage == [text |-> <<"a">>, attachments |-> <<>>, blocks |-> <<>>]
HostlessMessage == [text |-> HttpPrefix \o <<">">>, attachments |-> <<>>, blocks |-> <<>>]
AttachmentMessage ==
    [text |-> <<>>, attachments |-> <<[text |-> SeeFooIo]>>, blocks |-> <<>>]
SampleMessages == {UrlMessage, NoUrlMessage, HostlessMessage, AttachmentMessage}

\* answers of client.conversations_history
HistoryResponses ==
    [kind : {"messages"}, message : SampleMessages]
        \cup {[kind |-> "empty", message |-> EmptyMessage],
              [kind |-> "error", message |-> EmptyMessage]}

\* answers of one GET /api/v3/list/ of check_url_exists:
\*   match          a result whose source_url equals the normalized url
\*   more           no such result, nextPageCursor present
\*   end            no such result, no nextPageCursor
\*   request_error  requests.RequestException (timeout, connection, HTTP status)
\*   malformed      a body that makes data.get / article.get raise
ExistsResponses == {"match", "more", "end", "request_error", "malformed"}

\* the url the backend assigns to a saved document
ReaderUrl == HttpsPrefix \o <<"r", "/", "1">>

\* answers of POST /api/v3/save/:
\*   created        201 with a url field
\*   created_bare   201 without a url field
\*   exists         200
\*   other_status   another status for which raise_for_status does not raise
\*   request_error  requests.RequestException: timeout, connection, or another
\*                  status for which raise_for_status raises
\*   malformed      a 2xx body that makes data.get raise
SaveResponses == {"created", "created_bare", "exists", "other_status",
                  "request_error", "malformed"}

\* answers of client.chat_postMessage
PostResponses == {"ok", "error"}

Unset == [set |-> FALSE, success |-> FALSE, result |-> <<>>]
SaveReturn(success, result) == [set |-> TRUE, success |-> success, result |-> result]

Log(level, text) == [level |-> level, text |-> text]

(***************************************************************************)
(* EventDeduplicator.deduplicate.wrapper                                   *)
(***************************************************************************)
\* the boundary age counted as a duplicate
IsDuplicate_Inclusive(pe, key, t) == key \in DOMAIN pe /\ t - pe[key] <= TTL

\* lines 25-26: the key is recorded and younger than ttl
IsDuplicate(pe, key, t) == key \in DOMAIN pe /\ t - pe[key] < TTL

\* the rejected key's time refreshed
Skip_Refreshed(pe, key, t) == [k \in DOMAIN pe \cup {key} |-> IF k = key THEN t ELSE pe[k]]

\* lines 27-28: a duplicate is logged and the wrapper returns, the map untouched
Skip(pe, key, t) == pe

\* the accepted key not recorded
Record_Skipped(pe, key, t) == pe

\* line 30: self.processed_events[event_key] = current_time
Record(pe, key, t) == [k \in DOMAIN pe \cup {key} |-> IF k = key THEN t ELSE pe[k]]

\* the purge dropping every entry, the one just recorded included
Purge_All(pe, t) == <<>>

\* the purge left out
Purge_Kept(pe, t) == pe

\* the comparison of the purge reversed
Purge_Reversed(pe, t) == [k \in {j \in DOMAIN pe : t - pe[j] > TTL} |-> pe[k]]

\* line 31: keep the entries younger than ttl
Purge(pe, t) == [k \in {j \in DOMAIN pe : t - pe[j] < TTL} |-> pe[k]]

\* the result of the existence check ignored
SkipsSave_Never(exists) == FALSE

\* line 358: if url_exists: (skip the save, post nothing)
SkipsSave(exists) == exists = "True"

\* a message posted whatever the save returned
PostsConfirmation_Always(success) == TRUE

\* line 364: if success: (post the confirmation)
PostsConfirmation(success) == success

\* the fallback label whatever the emoji
SaveTag_Fallback(emoji) == "Read Later"

\* lines 134-138: tag = emoji_config.label if emoji_config else "Read Later"
SaveTag(emoji) ==
    IF emoji \in DOMAIN get_emoji_configs
    THEN get_emoji_configs[emoji].label
    ELSE "Read Later"

NotParsed == -2

\* no /retrieve-articles command has arrived
RetrieveIdle ==
    /\ command = [text |-> <<>>]
    /\ rpc = "idle"
    /\ parsed_date = NotParsed
    /\ responses = <<>>
    /\ slack_failed = FALSE
    /\ list_call = <<>>
    /\ library = <<>>
    /\ next_page_cursor = 0
    /\ articles = <<>>
    /\ list_failed = FALSE

\* the request awaited, the event loop free meanwhile
Blocking_Awaited(p) == NoProc

\* lines 189-196 and 147-153: requests.get and requests.post block inside the
\* coroutine, which so holds the event loop from the first request of
\* check_url_exists to the next await of handle_reaction
Blocking(p) == p

Append1(f, p, x) == [f EXCEPT ![p] = Append(@, x)]

Init ==
    /\ now = 0
    /\ processed_events = <<>>
    /\ last_accept = [k \in Keys |-> -1]
    /\ loop = NoProc
    /\ pc = [p \in Procs |-> "idle"]
    /\ event = [p \in Procs |-> NoEvent]
    /\ current_time = [p \in Procs |-> -1]
    /\ url = [p \in Procs |-> Pending]
    /\ pages = [p \in Procs |-> 0]
    /\ next_cursor = [p \in Procs |-> "None"]
    /\ url_exists = [p \in Procs |-> "unset"]
    /\ save_result = [p \in Procs |-> Unset]
    /\ calls = [p \in Procs |-> <<>>]
    /\ logs = [p \in Procs |-> <<>>]
    /\ message = EmptyMessage
    /\ extracted = Pending
    /\ raw = <<>>
    /\ sanitize_out = Pending
    /\ validate_out = Pending
    /\ RetrieveIdle

\* time passes, also while a coroutine blocks the event loop in requests
Tick ==
    /\ now + Delta <= MaxTime
    /\ now' = now + Delta
    /\ UNCHANGED <<processed_events, last_accept, loop, pc, event, current_time, url,
                   pages, url_exists, save_result, calls, logs, next_cursor, harnessvars>>

\* the runtime hands a reaction_added event to the registered listener
Dispatch(p, e) ==
    /\ pc[p] = "idle"
    /\ pc' = [pc EXCEPT ![p] = "ready"]
    /\ event' = [event EXCEPT ![p] = e]
    /\ UNCHANGED <<now, processed_events, last_accept, loop, current_time, url, pages,
                   url_exists, save_result, calls, logs, next_cursor, harnessvars>>

\* The wrapper (lines 22-33) and, when the event is accepted, handle_reaction
\* up to its first suspension, await client.conversations_history (lines
\* 339-351): no await lies between, so the event loop runs it as one step.
Wrapper(p) ==
    /\ pc[p] = "ready"
    /\ loop = NoProc
    /\ LET e == event[p]
       IN  IF ~({"event_ts", "item"} \subseteq DOMAIN e)
           THEN \* KeyError building event_key, outside any try
                /\ pc' = [pc EXCEPT ![p] = "raised"]
                /\ UNCHANGED <<processed_events, last_accept, current_time, calls, logs>>
           ELSE IF IsDuplicate(processed_events, event_key(e), now)
           THEN /\ current_time' = [current_time EXCEPT ![p] = now]
                /\ logs' = Append1(logs, p, Log("info", "Duplicate event detected, skipping"))
                /\ pc' = [pc EXCEPT ![p] = "done"]
                /\ processed_events' = Skip(processed_events, event_key(e), now)
                /\ UNCHANGED <<last_accept, calls>>
           ELSE /\ current_time' = [current_time EXCEPT ![p] = now]
                /\ processed_events' =
                       Purge(Record(processed_events, event_key(e), now), now)
                /\ last_accept' = [last_accept EXCEPT ![event_key(e)] = now]
                /\ logs' = logs
                /\ IF "reaction" \notin DOMAIN e
                   THEN \* KeyError at line 339, outside the try
                        /\ pc' = [pc EXCEPT ![p] = "raised"]
                        /\ calls' = calls
                   ELSE IF e.reaction \notin get_trigger_emojis
                   THEN /\ pc' = [pc EXCEPT ![p] = "done"]
                        /\ calls' = calls
                   ELSE /\ pc' = [pc EXCEPT ![p] = "history"]
                        /\ calls' = Append1(calls, p,
                               [op |-> "conversations_history",
                                channel |-> e.item.channel, latest |-> e.item.ts,
                                limit |-> 1, inclusive |-> TRUE])
    /\ UNCHANGED <<now, loop, event, url, pages, url_exists, save_result,
                   next_cursor, harnessvars>>

\* conversations_history answers; lines 352-357 up to the first request of
\* check_url_exists. From there on the coroutine calls requests, which
\* blocks: it keeps the event loop until it suspends or returns.
HistoryReturn(p, r) ==
    /\ pc[p] = "history"
    /\ loop = NoProc
    /\ LET u == extract_and_validate_url(r.message)
       IN  IF r.kind = "error"
           THEN /\ logs' = Append1(logs, p, Log("error", "Error handling reaction"))
                /\ pc' = [pc EXCEPT ![p] = "done"]
                /\ UNCHANGED <<url, loop>>
           ELSE IF r.kind = "empty"
           THEN /\ logs' = Append1(logs, p,
                       Log("warning", "No message found in the conversation history"))
                /\ pc' = [pc EXCEPT ![p] = "done"]
                /\ UNCHANGED <<url, loop>>
           ELSE /\ url' = [url EXCEPT ![p] = u]
                /\ IF u.tag = "raise"
                   THEN /\ logs' = Append1(logs, p, Log("error", "Error handling reaction"))
                        /\ pc' = [pc EXCEPT ![p] = "done"]
                        /\ loop' = loop
                   ELSE IF u.tag = "value"
                   THEN /\ logs' = logs
                        /\ pc' = [pc EXCEPT ![p] = "exists"]
                        /\ loop' = Blocking(p)
                   ELSE /\ logs' = logs
                        /\ pc' = [pc EXCEPT ![p] = "done"]
                        /\ loop' = loop
    /\ UNCHANGED <<now, processed_events, last_accept, event, current_time, pages,
                   url_exists, save_result, calls, next_cursor, harnessvars>>

\* check_url_exists: one pass of its while loop (lines 181-210), with its
\* return (212-213), its except clause (215-217) and what handle_reaction
\* does with True (358-360)
ExistsPage(p, r) ==
    /\ pc[p] = "exists"
    /\ loop = Blocking(p)
    /\ r = "more" => pages[p] < MaxPages
    /\ calls' = Append1(calls, p,
           [op |-> "list", source_url |-> RStripChars(url[p].val, {"/"}),
            category |-> "article", page |-> pages[p]])
    /\ CASE r = "match" ->
              /\ url_exists' = [url_exists EXCEPT ![p] = "True"]
              /\ pages' = pages
              /\ IF SkipsSave("True")
                 THEN /\ logs' = [logs EXCEPT ![p] = @ \o
                             <<Log("info", "Found exact URL match"),
                               Log("info", "URL already exists in Readwise, skipping")>>]
                      /\ pc' = [pc EXCEPT ![p] = "done"]
                      /\ loop' = NoProc
                 ELSE /\ logs' = Append1(logs, p, Log("info", "Found exact URL match"))
                      /\ pc' = [pc EXCEPT ![p] = "save"]
                      /\ loop' = loop
         [] r = "more" ->
              /\ pages' = [pages EXCEPT ![p] = @ + 1]
              /\ UNCHANGED <<url_exists, logs, pc, loop>>
         [] r = "end" ->
              /\ url_exists' = [url_exists EXCEPT ![p] = "False"]
              /\ pages' = pages
              /\ IF SkipsSave("False")
                 THEN /\ logs' = [logs EXCEPT ![p] = @ \o
                             <<Log("info", "No exact URL match found"),
                               Log("info", "URL already exists in Readwise, skipping")>>]
                      /\ pc' = [pc EXCEPT ![p] = "done"]
                      /\ loop' = NoProc
                 ELSE /\ logs' = Append1(logs, p, Log("info", "No exact URL match found"))
                      /\ pc' = [pc EXCEPT ![p] = "save"]
                      /\ loop' = loop
         [] r = "request_error" ->
              /\ url_exists' = [url_exists EXCEPT ![p] = "False"]
              /\ pages' = pages
              /\ IF SkipsSave("False")
                 THEN /\ logs' = [logs EXCEPT ![p] = @ \o
                             <<Log("error", "Error checking URL in Readwise"),
                               Log("info", "URL already exists in Readwise, skipping")>>]
                      /\ pc' = [pc EXCEPT ![p] = "done"]
                      /\ loop' = NoProc
                 ELSE /\ logs' = Append1(logs, p, Log("error", "Error checking URL in Readwise"))
                      /\ pc' = [pc EXCEPT ![p] = "save"]
                      /\ loop' = loop
         [] r = "malformed" ->
              /\ logs' = Append1(logs, p, Log("error", "Error handling reaction"))
              /\ pc' = [pc EXCEPT ![p] = "done"]
              /\ loop' = NoProc
              /\ UNCHANGED <<url_exists, pages>>
    \* line 208: next_cursor = data.get('nextPageCursor')
    /\ next_cursor' = IF r = "more" THEN [next_cursor EXCEPT ![p] = "c1"] ELSE next_cursor
    /\ UNCHANGED <<now, processed_events, last_accept, event, current_time, url,
                   save_result, harnessvars>>

\* save_url_to_readwise (lines 132-171) and what handle_reaction does with
\* its result (364-374), up to the suspension in await client.chat_postMessage
SaveUrl(p, r) ==
    /\ pc[p] = "save"
    /\ loop = Blocking(p)
    /\ LET reaction == event[p].reaction
           tag == SaveTag(reaction)
           request == [op |-> "save", url |-> url[p].val, tags |-> <<tag>>,
                       location |-> "new",
                       saved_using |-> "slack-readwise-integration"]
           ret == CASE r = "created" -> SaveReturn(TRUE, ReaderUrl)
                    [] r = "created_bare" -> SaveReturn(TRUE, url[p].val)
                    [] r = "exists" ->
                         SaveReturn(FALSE, <<"Document already exists at ">> \o ReaderUrl)
                    [] r = "other_status" -> SaveReturn(FALSE, <<"Unknown error occurred">>)
                    [] r = "request_error" -> SaveReturn(FALSE, <<"str(e)">>)
                    [] r = "malformed" -> Unset
           post == [op |-> "chat_postMessage", channel |-> event[p].item.channel,
                    text |-> <<get_emoji_message(reaction), ": ">> \o ret.result,
                    thread_ts |-> event[p].item.ts]
       IN  /\ save_result' = [save_result EXCEPT ![p] = ret]
           /\ IF r = "malformed"
              THEN /\ calls' = Append1(calls, p, request)
                   /\ logs' = Append1(logs, p, Log("error", "Error handling reaction"))
                   /\ pc' = [pc EXCEPT ![p] = "done"]
              ELSE IF PostsConfirmation(ret.success)
              THEN /\ calls' = [calls EXCEPT ![p] = @ \o <<request, post>>]
                   /\ logs' = logs
                   /\ pc' = [pc EXCEPT ![p] = "post"]
              ELSE /\ calls' = Append1(calls, p, request)
                   /\ logs' = [logs EXCEPT ![p] = @ \o
                          (IF r = "request_error"
                           THEN <<Log("error", "Error saving URL to Readwise")>>
                           ELSE <<>>)
                          \o <<Log("error", "Failed to save URL to Readwise")>>]
                   /\ pc' = [pc EXCEPT ![p] = "done"]
    /\ loop' = NoProc
    /\ UNCHANGED <<now, processed_events, last_accept, event, current_time, url, pages,
                   url_exists, next_cursor, harnessvars>>

\* chat_postMessage answers (lines 368-372, 377-378)
PostReturn(p, r) ==
    /\ pc[p] = "post"
    /\ loop = NoProc
    /\ logs' = IF r = "error"
               THEN Append1(logs, p, Log("error", "Error handling reaction"))
               ELSE logs
    /\ pc' = [pc EXCEPT ![p] = "done"]
    /\ UNCHANGED <<now, processed_events, last_accept, loop, event, current_time, url,
                   pages, url_exists, save_result, calls, next_cursor, harnessvars>>

\* the invocation is over (returned or raised); its slot serves a later event
Complete(p) ==
    /\ pc[p] \in {"done", "raised"}
    /\ pc' = [pc EXCEPT ![p] = "idle"]
    /\ event' = [event EXCEPT ![p] = NoEvent]
    /\ current_time' = [current_time EXCEPT ![p] = -1]
    /\ url' = [url EXCEPT ![p] = Pending]
    /\ pages' = [pages EXCEPT ![p] = 0]
    /\ next_cursor' = [next_cursor EXCEPT ![p] = "None"]
    /\ url_exists' = [url_exists EXCEPT ![p] = "unset"]
    /\ save_result' = [save_result EXCEPT ![p] = Unset]
    /\ calls' = [calls EXCEPT ![p] = <<>>]
    /\ logs' = [logs EXCEPT ![p] = <<>>]
    /\ UNCHANGED <<now, processed_events, last_accept, loop, harnessvars>>

Next ==
    \/ Tick
    \/ \E p \in Procs, e \in Events : Dispatch(p, e)
    \/ \E p \in Procs : Wrapper(p)
    \/ \E p \in Procs, r \in HistoryResponses : HistoryReturn(p, r)
    \/ \E p \in Procs, r \in ExistsResponses : ExistsPage(p, r)
    \/ \E p \in Procs, r \in SaveResponses : SaveUrl(p, r)
    \/ \E p \in Procs, r \in PostResponses : PostReturn(p, r)
    \/ \E p \in Procs : Complete(p)

Spec == Init /\ [][Next]_vars

(***************************************************************************)
(* Progress: the event loop runs every coroutine that can run, and every   *)
(* backend call returns or times out; the backend answers as it likes      *)
(***************************************************************************)
\* the cursor the backend returns after cursor c
Following(c) == IF c = "c1" THEN "c2" ELSE "c1"

\* One more pass of the while loop of check_url_exists (lines 181-210) past
\* the pages the model counts: no result matches and the answer carries yet
\* another nextPageCursor. The loop has no bound on its passes; pages and
\* calls keep what they hold at MaxPages.
ExistsPageOn(p) ==
    /\ pc[p] = "exists"
    /\ loop = Blocking(p)
    /\ pages[p] = MaxPages
    /\ next_cursor' = [next_cursor EXCEPT ![p] = Following(@)]
    /\ UNCHANGED <<now, processed_events, last_accept, loop, pc, event, current_time,
                   url, pages, url_exists, save_result, calls, logs, harnessvars>>

NextLive ==
    \/ Next
    \/ \E p \in Procs : ExistsPageOn(p)

\* a coroutine that can take its next step takes it
Fairness ==
    \A p \in Procs :
        /\ WF_vars(Wrapper(p))
        /\ WF_vars(\E r \in HistoryResponses : HistoryReturn(p, r))
        /\ WF_vars((\E r \in ExistsResponses : ExistsPage(p, r)) \/ ExistsPageOn(p))
        /\ WF_vars(\E r \in SaveResponses : SaveUrl(p, r))
        /\ WF_vars(\E r \in PostResponses : PostReturn(p, r))

SpecLive == Init /\ [][NextLive]_vars /\ Fairness

(***************************************************************************)
(* Two handlers against one backend that holds what was saved and whose    *)
(* calls do not fail; each invocation slot serves one event                *)
(***************************************************************************)
\* the urls of the saves the backend has completed
SavedUrls ==
    {url[p].val : p \in {q \in Procs : save_result[q].set /\ save_result[q].success}}

\* lines 177 and 202-203: the backend holds the url of p, trailing "/" aside
BackendHolds(p) ==
    RStripChars(url[p].val, {"/"}) \in {RStripChars(u, {"/"}) : u \in SavedUrls}

\* the answers of such a backend to the existence check and to the save
SharedExistsResponses(p) == IF BackendHolds(p) THEN {"match", "more"} ELSE {"end", "more"}
SharedSaveResponses(p) == IF BackendHolds(p) THEN {"exists"} ELSE {"created", "created_bare"}
SharedHistoryResponses == {r \in HistoryResponses : r.kind = "messages"}

NextShared ==
    \/ Tick
    \/ \E p \in Procs, e \in WellFormedEvents : Dispatch(p, e)
    \/ \E p \in Procs : Wrapper(p)
    \/ \E p \in Procs, r \in SharedHistoryResponses : HistoryReturn(p, r)
    \/ \E p \in Procs : \E r \in SharedExistsResponses(p) : ExistsPage(p, r)
    \/ \E p \in Procs : \E r \in SharedSaveResponses(p) : SaveUrl(p, r)
    \/ \E p \in Procs : PostReturn(p, "ok")

SpecShared == Init /\ [][NextShared]_vars

(***************************************************************************)
(* The deduplicator on a finer clock: the wrapper on events whose handler  *)
(* body ends at the history answer                                         *)
(***************************************************************************)
\* time passes in steps of half of Delta
TickHalf ==
    /\ now + (Delta \div 2) <= MaxTime
    /\ now' = now + (Delta \div 2)
    /\ UNCHANGED <<processed_events, last_accept, loop, pc, event, current_time, url,
                   pages, url_exists, save_result, calls, logs, next_cursor, harnessvars>>

\* history answers after which the handler body returns
DedupHistoryResponses == {r \in HistoryResponses : r.kind \in {"empty", "error"}}

NextDedup ==
    \/ TickHalf
    \/ \E p \in Procs, e \in WellFormedEvents : Dispatch(p, e)
    \/ \E p \in Procs : Wrapper(p)
    \/ \E p \in Procs, r \in DedupHistoryResponses : HistoryReturn(p, r)
    \/ \E p \in Procs : Complete(p)

SpecDedup == Init /\ [][NextDedup]_vars

(***************************************************************************)
(* The extraction harness: extract_url_from_message on every message       *)
(***************************************************************************)
InitExtract ==
    /\ now = 0
    /\ processed_events = <<>>
    /\ last_accept = [k \in Keys |-> -1]
    /\ loop = NoProc
    /\ pc = [p \in Procs |-> "idle"]
    /\ event = [p \in Procs |-> NoEvent]
    /\ current_time = [p \in Procs |-> -1]
    /\ url = [p \in Procs |-> Pending]
    /\ pages = [p \in Procs |-> 0]
    /\ next_cursor = [p \in Procs |-> "None"]
    /\ url_exists = [p \in Procs |-> "unset"]
    /\ save_result = [p \in Procs |-> Unset]
    /\ calls = [p \in Procs |-> <<>>]
    /\ logs = [p \in Procs |-> <<>>]
    /\ message \in Messages
    /\ extracted = Pending
    /\ raw = <<>>
    /\ sanitize_out = Pending
    /\ validate_out = Pending
    /\ RetrieveIdle

Extract ==
    /\ extracted = Pending
    /\ extracted' = extract_url_from_message(message)
    /\ UNCHANGED <<sysvars, message, normalizevars, retrievevars, listvars>>

NextExtract == Extract

SpecExtract == InitExtract /\ [][NextExtract]_vars

(***************************************************************************)
(* The normalization harness: sanitize_url and the validation of lines     *)
(* 68-71 on every raw string                                               *)
(***************************************************************************)
InitNormalize ==
    /\ now = 0
    /\ processed_events = <<>>
    /\ last_accept = [k \in Keys |-> -1]
    /\ loop = NoProc
    /\ pc = [p \in Procs |-> "idle"]
    /\ event = [p \in Procs |-> NoEvent]
    /\ current_time = [p \in Procs |-> -1]
    /\ url = [p \in Procs |-> Pending]
    /\ pages = [p \in Procs |-> 0]
    /\ next_cursor = [p \in Procs |-> "None"]
    /\ url_exists = [p \in Procs |-> "unset"]
    /\ save_result = [p \in Procs |-> Unset]
    /\ calls = [p \in Procs |-> <<>>]
    /\ logs = [p \in Procs |-> <<>>]
    /\ message = EmptyMessage
    /\ extracted = Pending
    /\ raw \in RawStrings
    /\ sanitize_out = Pending
    /\ validate_out = Pending
    /\ RetrieveIdle

Normalize ==
    /\ sanitize_out = Pending
    /\ sanitize_out' = Value(sanitize_url(raw))
    /\ validate_out' = validate_and_normalize(raw)
    /\ UNCHANGED <<sysvars, extractvars, raw, retrievevars, listvars>>

NextNormalize == Normalize

SpecNormalize == InitNormalize /\ [][NextNormalize]_vars

(***************************************************************************)
(* handle_retrieve_command and get_tagged_articles_since_date              *)
(***************************************************************************)
MaxCmdFrags == 3
MaxDocs == 2
MaxInstant == 3
PerPage == 1
\* the day date.today() returns
Today == 400
\* timedelta(days=365), line 266
MaxAgeDays == 365

\* ":star:", "eyes"
ColonStar == <<":","s","t","a","r",":">>
Eyes == <<"e","y","e","s">>
CmdFragments == {ColonStar, <<"s","t","a","r">>, Eyes, <<":">>, <<" ">>, <<"d">>}

\* the payloads of the command: a text, or no text at all
Commands == [text : ConcatsOf(CmdFragments, MaxCmdFrags)] \cup {[user |-> "U1"]}

\* the emoji names as strings of characters
EmojiName(chars) ==
    CASE chars = <<"s","t","a","r">> -> "star"
      [] chars = Eyes -> "eyes"
      [] OTHER -> "other"

\* index of the first character of s in chars, 0 if there is none
RECURSIVE FirstIn(_, _, _)
FirstIn(s, chars, i) ==
    IF i > Len(s) THEN 0
    ELSE IF s[i] \in chars THEN i
    ELSE FirstIn(s, chars, i + 1)

\* str.split(maxsplit=1): the first word and the rest, split at whitespace
split_maxsplit1(s0) ==
    LET s == LStripChars(s0, Whitespace)
        k == FirstIn(s, Whitespace, 1)
        rest == IF k = 0 THEN <<>>
                ELSE LStripChars(SubSeq(s, k + 1, Len(s)), Whitespace)
    IN  IF s = <<>> THEN <<>>
        ELSE IF rest = <<>> THEN << (IF k = 0 THEN s ELSE SubSeq(s, 1, k - 1)) >>
        ELSE <<SubSeq(s, 1, k - 1), rest>>

\* line 236: emoji.strip(':')
StripColons(s) == LStripChars(RStripChars(s, {":"}), {":"})

\* dateparser.parse is a library outside the repository: the handler only
\* tests its answer, None or a date (here a day number)
NoDate == -1
ParseResults == {NoDate, Today + 1, Today, Today - 1, Today - MaxAgeDays + 1,
                 Today - MaxAgeDays, Today - MaxAgeDays - 1}

\* the future one day too wide
IsFuture_Lenient(d, today) == d > today + 1

\* line 258: parsed_date.date() > date.today()
IsFuture(d, today) == d > today

\* line 266: parsed_date.date() < date.today() - timedelta(days=365)
IsTooOld(d, today) == d < today - MaxAgeDays

\* lines 226-271: the outcome of the validation of the command, both reads of
\* date.today() lying in one uninterrupted stretch of the handler
Validate(cmd, d) ==
    IF "text" \notin DOMAIN cmd THEN "exception"
    ELSE LET parts == split_maxsplit1(Strip(cmd.text))
         IN  IF Len(parts) # 2 THEN "arguments"
             ELSE IF EmojiName(StripColons(parts[1])) \notin DOMAIN get_emoji_configs
             THEN "emoji"
             ELSE IF d = NoDate THEN "unparsed"
             ELSE IF IsFuture(d, Today) THEN "future"
             ELSE IF IsTooOld(d, Today) THEN "old"
             ELSE "ok"

\* the emoji of a command that passed the validation
CommandEmoji(cmd) == EmojiName(StripColons(split_maxsplit1(Strip(cmd.text))[1]))

Response(type, text) == [response_type |-> type, text |-> text]

\* the text of the ephemeral answer to each failed validation
ErrorText(v) ==
    CASE v = "arguments" -> "Please provide both an emoji and a date"
      [] v = "emoji" -> "Invalid emoji"
      [] v = "unparsed" -> "Could not parse the date"
      [] v = "future" -> "The date cannot be in the future"
      [] v = "old" -> "Please select a date within the last year"
      [] OTHER -> "An error occurred"

RespondOutcomes == {"ok", "error"}

\* the documents of the backend: tags, creation and update instants (two
\* instants a day: midnight and later), created_at possibly missing
Midnight(day) == 2 * day
DayOf(instant) == instant \div 2
NoInstant == -1
TagLists == {<<>>, <<[name |-> "Favourites"]>>, <<[name |-> "Other"]>>,
             <<[name |-> "Other"], [name |-> "Favourites"]>>}
DocShapes ==
    {d \in [tags : TagLists, created_at : {NoInstant} \cup 0..MaxInstant,
            updated_at : 0..MaxInstant] : d.created_at <= d.updated_at}
Titled(shapes) ==
    [i \in DOMAIN shapes |->
        [title |-> i, tags |-> shapes[i].tags, created_at |-> shapes[i].created_at,
         updated_at |-> shapes[i].updated_at]]
Libraries == {Titled(sh) : sh \in SeqsUpTo(DocShapes, MaxDocs)}

\* the libraries behind the command: empty, or one fresh tagged document
CommandLibraries ==
    {<<>>,
     Titled(<<[tags |-> <<[name |-> "Favourites"]>>,
               created_at |-> Midnight(Today) + 1,
               updated_at |-> Midnight(Today) + 1]>>)}

\* the command arrives
InitRetrieve ==
    /\ now = 0
    /\ processed_events = <<>>
    /\ last_accept = [k \in Keys |-> -1]
    /\ loop = NoProc
    /\ pc = [p \in Procs |-> "idle"]
    /\ event = [p \in Procs |-> NoEvent]
    /\ current_time = [p \in Procs |-> -1]
    /\ url = [p \in Procs |-> Pending]
    /\ pages = [p \in Procs |-> 0]
    /\ next_cursor = [p \in Procs |-> "None"]
    /\ url_exists = [p \in Procs |-> "unset"]
    /\ save_result = [p \in Procs |-> Unset]
    /\ calls = [p \in Procs |-> <<>>]
    /\ logs = [p \in Procs |-> <<>>]
    /\ message = EmptyMessage
    /\ extracted = Pending
    /\ raw = <<>>
    /\ sanitize_out = Pending
    /\ validate_out = Pending
    /\ command \in Commands
    /\ rpc = "start"
    /\ parsed_date = NotParsed
    /\ responses = <<>>
    /\ slack_failed = FALSE
    /\ list_call = <<>>
    /\ library \in CommandLibraries
    /\ next_page_cursor = 0
    /\ articles = <<>>
    /\ list_failed = FALSE

\* line 222: await ack(), outside the try
Ack(a) ==
    /\ rpc = "start"
    /\ rpc' = IF a = "ok" THEN "acked" ELSE "raised"
    /\ slack_failed' = (a = "error")
    /\ UNCHANGED <<sysvars, extractvars, normalizevars, listvars, command, parsed_date,
                   responses, list_call>>

\* what the except clause of lines 329-334 leaves: one more ephemeral answer,
\* or the exception of its respond
Excepted(r2) ==
    /\ responses' = IF r2 = "ok"
                    THEN Append(responses, Response("ephemeral", ErrorText("exception")))
                    ELSE responses
    /\ rpc' = IF r2 = "ok" THEN "done" ELSE "raised"
    /\ slack_failed' = TRUE

\* lines 224-283: the validation, its answer, and the call of
\* get_tagged_articles_since_date up to its first request
Retrieve(d, r1, r2) ==
    /\ rpc = "acked"
    /\ parsed_date' = IF Validate(command, d) \in {"exception", "arguments", "emoji"}
                      THEN parsed_date ELSE d
    /\ LET v == Validate(command, d)
       IN  IF v = "exception"
           THEN /\ responses' =
                       IF r2 = "ok"
                       THEN Append(responses, Response("ephemeral", ErrorText(v)))
                       ELSE responses
                /\ rpc' = IF r2 = "ok" THEN "done" ELSE "raised"
                /\ slack_failed' = (r2 = "error")
                /\ list_call' = list_call
           ELSE IF r1 = "error"
           THEN Excepted(r2) /\ list_call' = list_call
           ELSE IF v # "ok"
           THEN /\ responses' = Append(responses, Response("ephemeral", ErrorText(v)))
                /\ rpc' = "done"
                /\ UNCHANGED <<slack_failed, list_call>>
           ELSE /\ responses' = Append(responses, Response("in_channel", "Retrieving articles"))
                /\ list_call' = Append(list_call,
                       [tag |-> get_emoji_configs[CommandEmoji(command)].label,
                        since_date |-> d])
                /\ rpc' = "list"
                /\ UNCHANGED slack_failed
    /\ UNCHANGED <<sysvars, extractvars, normalizevars, listvars, command>>

\* the backend's answer to params updated__gt = since_date.isoformat(): the
\* documents updated after the midnight that starts since_date
Served(lib, since_date) ==
    SelectSeq(lib, LAMBDA doc : doc.updated_at > Midnight(since_date))

\* lines 87-112: the results kept, as summaries
RECURSIVE Summaries(_, _)
Summaries(results, tag) ==
    IF results = <<>> THEN <<>>
    ELSE LET article == Head(results)
             names == {article.tags[i].name : i \in DOMAIN article.tags}
         IN  (IF tag \notin names \/ article.created_at = NoInstant
              THEN <<>>
              ELSE <<[title |-> article.title, date |-> DayOf(article.created_at)]>>)
             \o Summaries(Tail(results), tag)

ListResponses == {"page", "request_error", "malformed"}

\* get_tagged_articles_since_date: one pass of its while loop (lines 52-123)
ListPage(r) ==
    /\ rpc = "list"
    /\ LET call == list_call[Len(list_call)]
           served == Served(library, call.since_date)
           start == IF next_page_cursor = 0 THEN 1 ELSE next_page_cursor
           last == IF start + PerPage - 1 <= Len(served) THEN start + PerPage - 1
                   ELSE Len(served)
           results == SubSeq(served, start, last)
           nextPageCursor == IF last < Len(served) THEN last + 1 ELSE 0
       IN  IF r # "page"
           THEN \* lines 118-123: logged, the loop left
                /\ list_failed' = TRUE
                /\ rpc' = "listed"
                /\ UNCHANGED <<articles, next_page_cursor>>
           ELSE IF results = <<>>
           THEN /\ rpc' = "listed"
                /\ UNCHANGED <<articles, next_page_cursor, list_failed>>
           ELSE /\ articles' = articles \o Summaries(results, call.tag)
                /\ next_page_cursor' = nextPageCursor
                /\ rpc' = IF nextPageCursor = 0 THEN "listed" ELSE "list"
                /\ list_failed' = list_failed
    /\ UNCHANGED <<sysvars, extractvars, normalizevars, command, parsed_date,
                   responses, slack_failed, list_call, library>>

\* lines 285-327: the articles answered in the channel
ListReturn(r1, r2) ==
    /\ rpc = "listed"
    /\ IF r1 = "error"
       THEN Excepted(r2)
       ELSE /\ responses' = Append(responses,
                   Response("in_channel",
                            IF articles = <<>> THEN "No articles found" ELSE "blocks"))
            /\ rpc' = "done"
            /\ UNCHANGED slack_failed
    /\ UNCHANGED <<sysvars, extractvars, normalizevars, listvars, command, parsed_date,
                   list_call>>

NextRetrieve ==
    \/ \E a \in RespondOutcomes : Ack(a)
    \/ \E d \in ParseResults, r1, r2 \in RespondOutcomes : Retrieve(d, r1, r2)
    \/ \E r \in ListResponses : ListPage(r)
    \/ \E r1, r2 \in RespondOutcomes : ListReturn(r1, r2)

SpecRetrieve == InitRetrieve /\ [][NextRetrieve]_vars

\* get_tagged_articles_since_date called on every library
InitList ==
    /\ now = 0
    /\ processed_events = <<>>
    /\ last_accept = [k \in Keys |-> -1]
    /\ loop = NoProc
    /\ pc = [p \in Procs |-> "idle"]
    /\ event = [p \in Procs |-> NoEvent]
    /\ current_time = [p \in Procs |-> -1]
    /\ url = [p \in Procs |-> Pending]
    /\ pages = [p \in Procs |-> 0]
    /\ next_cursor = [p \in Procs |-> "None"]
    /\ url_exists = [p \in Procs |-> "unset"]
    /\ save_result = [p \in Procs |-> Unset]
    /\ calls = [p \in Procs |-> <<>>]
    /\ logs = [p \in Procs |-> <<>>]
    /\ message = EmptyMessage
    /\ extracted = Pending
    /\ raw = <<>>
    /\ sanitize_out = Pending
    /\ validate_out = Pending
    /\ command = [text |-> <<>>]
    /\ rpc = "list"
    /\ parsed_date = NotParsed
    /\ responses = <<>>
    /\ slack_failed = FALSE
    /\ list_call \in {<<[tag |-> "Favourites", since_date |-> dt]>> :
                         dt \in 0..DayOf(MaxInstant)}
    /\ library \in Libraries
    /\ next_page_cursor = 0
    /\ articles = <<>>
    /\ list_failed = FALSE

NextList == \E r \in ListResponses : ListPage(r)

SpecList == InitList /\ [][NextList]_vars

(***************************************************************************)
(* Properties                                                              *)
(***************************************************************************)
CallsOf(p, op) == SelectSeq(calls[p], LAMBDA c : c.op = op)
HasLog(p, text) == \E i \in 1..Len(logs[p]) : logs[p][i].text = text
HasErrorLog(p) == \E i \in 1..Len(logs[p]) : logs[p][i].level = "error"

\* the invocation's dedup check has run
Checked(p) == current_time[p] # -1
\* ... and rejected the event / accepted it
Rejected(p) == Checked(p) /\ HasLog(p, "Duplicate event detected, skipping")
Accepted(p) == Checked(p) /\ ~Rejected(p)
HasIdentity(e) == {"event_ts", "item"} \subseteq DOMAIN e

\* C1: once a check for a key is accepted at t1, every check for the same key
\* at a time t2 >= t1 with t2 - t1 < TTL is rejected: the handler body does
\* not run (no call is issued), whatever checks of other keys lie between.
C1_RejectedWithinTTL ==
    [][\A p \in Procs :
          (/\ pc[p] = "ready"
           /\ pc'[p] # "ready"
           /\ HasIdentity(event[p])
           /\ last_accept[event_key(event[p])] >= 0
           /\ now - last_accept[event_key(event[p])] < TTL)
          => (/\ pc'[p] = "done"
              /\ calls'[p] = <<>>
              /\ HasLog(p, "Duplicate event detected, skipping")'
              /\ last_accept'[event_key(event[p])] = last_accept[event_key(event[p])])
      ]_vars

\* a check rejected at a later clock reading than the accept, less than TTL
\* after it, with a check of another key accepted in between
C1_Witness ==
    \E p \in Procs : \E k \in Keys :
        /\ Rejected(p)
        /\ HasIdentity(event[p])
        /\ last_accept[event_key(event[p])] >= 0
        /\ current_time[p] > last_accept[event_key(event[p])]
        /\ current_time[p] - last_accept[event_key(event[p])] < TTL
        /\ k # event_key(event[p])
        /\ last_accept[k] > last_accept[event_key(event[p])]
        /\ last_accept[k] <= current_time[p]

\* C2: two invocations dispatched with the same event identity whose checks
\* run less than TTL apart never both pass the deduplicator: the check and
\* the record are one step of the event loop.
C2_NoDoublePass ==
    \A p, q \in Procs :
        (/\ p # q
         /\ Accepted(p)
         /\ Accepted(q)
         /\ HasIdentity(event[p])
         /\ HasIdentity(event[q])
         /\ event_key(event[p]) = event_key(event[q]))
        => \/ current_time[p] - current_time[q] >= TTL
           \/ current_time[q] - current_time[p] >= TTL

\* two invocations of one identity in flight at the same clock reading: one
\* passed and is suspended in its handler body, the other was rejected
C2_Witness ==
    \E p, q \in Procs :
        /\ p # q
        /\ pc[p] = "history"
        /\ Accepted(p)
        /\ Rejected(q)
        /\ event_key(event[p]) = event_key(event[q])
        /\ current_time[p] = current_time[q]

\* C3: when the existence check returned True, the invocation issues no save
\* and posts no chat message, and is over.
C3_ExistsSkipsSaveAndPost ==
    \A p \in Procs :
        url_exists[p] = "True"
        => /\ CallsOf(p, "save") = <<>>
           /\ CallsOf(p, "chat_postMessage") = <<>>
           /\ pc[p] = "done"

C3_Witness ==
    \E p \in Procs :
        /\ url_exists[p] = "True"
        /\ pc[p] = "done"
        /\ CallsOf(p, "list") # <<>>

\* C4: when the existence check returned False and the save succeeded with a
\* canonical url, exactly one chat_postMessage is issued: to the event's
\* channel, with thread_ts the reacted message's ts, and with the text made
\* of the emoji's configured message and the returned url.
C4_OneThreadedConfirmation ==
    \A p \in Procs :
        /\ Len(CallsOf(p, "chat_postMessage")) <= 1
        /\ (url_exists[p] = "False" /\ save_result[p].set /\ save_result[p].success)
           => CallsOf(p, "chat_postMessage") =
                 <<[op |-> "chat_postMessage",
                    channel |-> event[p].item.channel,
                    text |-> <<EMOJI_CONFIGS[event[p].reaction].message, ": ">>
                                 \o save_result[p].result,
                    thread_ts |-> event[p].item.ts]>>

C4_Witness ==
    \E p \in Procs :
        /\ pc[p] = "done"
        /\ url_exists[p] = "False"
        /\ save_result[p].set
        /\ save_result[p].success
        /\ save_result[p].result = ReaderUrl
        /\ logs[p] = <<Log("info", "No exact URL match found")>>

\* C5: an event whose emoji is not configured never causes a message fetch,
\* an extraction, an existence check, a save or a post.
C5_UntriggeredShortCircuit ==
    \A p \in Procs :
        ("reaction" \in DOMAIN event[p] /\ event[p].reaction \notin DOMAIN EMOJI_CONFIGS)
        => /\ calls[p] = <<>>
           /\ url[p] = Pending
           /\ url_exists[p] = "unset"
           /\ ~save_result[p].set
           /\ pc[p] \in {"ready", "done"}

C5_Witness ==
    \E p \in Procs :
        /\ "reaction" \in DOMAIN event[p]
        /\ event[p].reaction \notin DOMAIN EMOJI_CONFIGS
        /\ Accepted(p)
        /\ pc[p] = "done"

\* C6: a backend call that times out or is unreachable ends the event in the
\* Failed outcome: the failure is logged and no later step runs (no save
\* after a failed existence check, no post after a failed save).
C6_FailedCallIsTerminal ==
    \A p \in Procs :
        /\ HasLog(p, "Error checking URL in Readwise")
           => /\ CallsOf(p, "save") = <<>>
              /\ CallsOf(p, "chat_postMessage") = <<>>
        /\ HasLog(p, "Error saving URL to Readwise")
           => /\ CallsOf(p, "chat_postMessage") = <<>>
              /\ pc[p] = "done"

\* C7: no exception raised while one event is processed leaves the registered
\* handler, whatever the payload.
C7_NothingPropagates == \A p \in Procs : pc[p] # "raised"

\* C8: when the save was attempted and did not succeed, no chat message is
\* posted: the failure is logged at error level and the invocation is over.
C8_FailedSaveIsSilent ==
    \A p \in Procs :
        (CallsOf(p, "save") # <<>> /\ ~(save_result[p].set /\ save_result[p].success))
        => /\ CallsOf(p, "chat_postMessage") = <<>>
           /\ pc[p] = "done"
           /\ logs[p] # <<>>
           /\ logs[p][Len(logs[p])].level = "error"

C8_Witness ==
    \E p \in Procs :
        /\ pc[p] = "done"
        /\ save_result[p].set
        /\ ~save_result[p].success
        /\ save_result[p].result = <<"Document already exists at ">> \o ReaderUrl

\* the first HTTP(S) URL token of a text, stated without the matcher: the
\* least index where a scheme prefix is followed by a token character,
\* extended over the whole run of token characters
PrefixAt(s, i) ==
    IF StartsWithAt(s, i, HttpsPrefix) THEN HttpsPrefix
    ELSE IF StartsWithAt(s, i, HttpPrefix) THEN HttpPrefix
    ELSE <<>>
TokenStartsAt(s, i) ==
    /\ PrefixAt(s, i) # <<>>
    /\ i + Len(PrefixAt(s, i)) <= Len(s)
    /\ s[i + Len(PrefixAt(s, i))] \in UrlTokenChar
HasToken(s) == \E i \in 1..Len(s) : TokenStartsAt(s, i)
FirstTokenStart(s) == CHOOSE i \in 1..Len(s) :
    TokenStartsAt(s, i) /\ \A j \in 1..(i - 1) : ~TokenStartsAt(s, j)
FirstTokenLast(s) ==
    LET first == FirstTokenStart(s)
        body == first + Len(PrefixAt(s, first))
    IN  CHOOSE n \in body..Len(s) :
            /\ \A j \in body..n : s[j] \in UrlTokenChar
            /\ (n = Len(s) \/ s[n + 1] \notin UrlTokenChar)
FirstToken(s) == SubSeq(s, FirstTokenStart(s), FirstTokenLast(s))

\* what the search order of the specification gives for a message
RECURSIVE FirstWithToken(_, _)
FirstWithToken(texts, i) ==
    IF i > Len(texts) THEN None
    ELSE IF HasToken(texts[i]) THEN Value(FirstToken(texts[i]))
    ELSE FirstWithToken(texts, i + 1)
AttachmentTextsOf(m) == [i \in 1..Len(m.attachments) |-> m.attachments[i].text]
SectionTextsOf(m) ==
    LET sections == SelectSeq(m.blocks, LAMBDA b : b.type = "section")
    IN  [i \in 1..Len(sections) |-> sections[i].text.text]

\* C9: for a message whose text has no URL token, the extraction returns the
\* first token of the first attachment text that has one, else the first
\* token of the first section block text that has one, else None.
C9_FallbackOrder ==
    (extracted # Pending /\ ~HasToken(message.text))
    => extracted =
          IF FirstWithToken(AttachmentTextsOf(message), 1) # None
          THEN FirstWithToken(AttachmentTextsOf(message), 1)
          ELSE FirstWithToken(SectionTextsOf(message), 1)

\* C10: for a message whose text has a URL token, the extraction returns the
\* first token of the text whatever the attachments and blocks hold.
C10_TextFirst ==
    (extracted # Pending /\ HasToken(message.text))
    => extracted = Value(FirstToken(message.text))

\* a text whose token comes after other characters is extracted, beside an
\* attachment and a section block that hold URLs of their own
C10_Witness ==
    /\ extracted # Pending
    /\ HasToken(message.text)
    /\ FirstTokenStart(message.text) > 1
    /\ extracted = Value(FirstToken(message.text))
    /\ \E i \in 1..Len(message.attachments) : HasToken(message.attachments[i].text)
    /\ \E i \in 1..Len(message.blocks) :
           message.blocks[i].type = "section" /\ HasToken(message.blocks[i].text.text)

EndsWith(s, chars) == s # <<>> /\ s[Len(s)] \in chars
BeginsWith(s, chars) == s # <<>> /\ s[1] \in chars
IsPrefixOf(a, b) == Len(a) <= Len(b) /\ SubSeq(b, 1, Len(a)) = a

\* C11: the validation returns None for every raw string that is not a URL,
\* that is whose sanitized form does not parse to a scheme and a host; in
\* particular for "not a url".
C11_NonUrlIsNone ==
    validate_out # Pending
    => /\ (urlparse(sanitize_out.val).scheme = <<>> \/ urlparse(sanitize_out.val).netloc = <<>>)
          => validate_out = None
       /\ raw = NotAUrl => validate_out = None

\* C12: the sanitized url never ends with ">" and neither begins nor ends
\* with whitespace, and so does the validated url.
C12_NoTrailingAngleNoSpace ==
    sanitize_out # Pending
    => /\ ~EndsWith(sanitize_out.val, {">"})
       /\ ~EndsWith(sanitize_out.val, Whitespace)
       /\ ~BeginsWith(sanitize_out.val, Whitespace)
       /\ validate_out.tag = "value"
          => /\ ~EndsWith(validate_out.val, {">"})
             /\ ~EndsWith(validate_out.val, Whitespace)
             /\ ~BeginsWith(validate_out.val, Whitespace)

\* C13: a raw url without the http:// or https:// prefix is coerced by
\* prepending http://, one with a prefix keeps it, and every validated url
\* starts with one of the two prefixes and has a character of a host after it.
C13_SchemeCoerced ==
    sanitize_out # Pending
    => /\ StartsWith(sanitize_out.val, HttpPrefix) \/ StartsWith(sanitize_out.val, HttpsPrefix)
       /\ (StartsWith(raw, HttpPrefix) \/ StartsWith(raw, HttpsPrefix))
          => IsPrefixOf(sanitize_out.val, raw)
       /\ (~BeginsWith(raw, Whitespace)
             /\ ~StartsWith(raw, HttpPrefix) /\ ~StartsWith(raw, HttpsPrefix))
          => /\ StartsWith(sanitize_out.val, HttpPrefix)
             /\ IsPrefixOf(SubSeq(sanitize_out.val, Len(HttpPrefix) + 1,
                                  Len(sanitize_out.val)), raw)
       /\ raw = ExampleComX => validate_out = Value(HttpPrefix \o ExampleComX)
       /\ validate_out.tag = "value"
          => LET v == validate_out.val
                 host == IF StartsWith(v, HttpsPrefix) THEN Len(HttpsPrefix) + 1
                         ELSE Len(HttpPrefix) + 1
             IN  /\ StartsWith(v, HttpPrefix) \/ StartsWith(v, HttpsPrefix)
                 /\ host <= Len(v)
                 /\ v[host] \notin {"/", "?", "#"}

C13_Witness ==
    /\ raw = ExampleComX
    /\ validate_out = Value(HttpPrefix \o ExampleComX)

\* the step is the dedup check of invocation p
CheckStep(p) == pc[p] = "ready" /\ pc'[p] # "ready" /\ HasIdentity(event[p])

\* C14: a check of key k at time t2 is accepted whenever k is absent from the
\* map or its recorded time t1 has t2 - t1 >= TTL, the boundary included: no
\* duplicate is logged, k is recorded with t2, and the handler runs (a
\* trigger emoji's event issues the history call).
C14_AcceptedAtOrAfterTTL ==
    [][\A p \in Procs :
          (/\ CheckStep(p)
           /\ \/ event_key(event[p]) \notin DOMAIN processed_events
              \/ now - processed_events[event_key(event[p])] >= TTL)
          => (/\ ~HasLog(p, "Duplicate event detected, skipping")'
              /\ event_key(event[p]) \in DOMAIN processed_events'
              /\ processed_events'[event_key(event[p])] = now
              /\ ("reaction" \in DOMAIN event[p] /\ event[p].reaction \in get_trigger_emojis)
                 => (pc'[p] = "history" /\ Len(calls'[p]) = 1))
      ]_vars

\* two invocations of one key, both accepted, their checks exactly TTL apart
C14_Witness ==
    \E p, q \in Procs :
        /\ Accepted(p)
        /\ Accepted(q)
        /\ HasIdentity(event[p])
        /\ HasIdentity(event[q])
        /\ event_key(event[p]) = event_key(event[q])
        /\ current_time[q] - current_time[p] = TTL
        /\ pc[q] = "history"

\* C18: a rejected check leaves processed_events unchanged and runs nothing
\* further (no call, the invocation is over); the window is measured from the
\* last accepted check of the key: a check at least TTL after it is accepted.
C18_RejectLeavesMapAlone ==
    [][\A p \in Procs :
          /\ (/\ CheckStep(p)
              /\ event_key(event[p]) \in DOMAIN processed_events
              /\ now - processed_events[event_key(event[p])] < TTL)
             => (/\ processed_events' = processed_events
                 /\ calls'[p] = <<>>
                 /\ pc'[p] = "done"
                 /\ Len(logs'[p]) = 1)
          /\ (/\ CheckStep(p)
              /\ last_accept[event_key(event[p])] >= 0
              /\ now - last_accept[event_key(event[p])] >= TTL)
             => (/\ ~HasLog(p, "Duplicate event detected, skipping")'
                 /\ last_accept'[event_key(event[p])] = now)
      ]_vars

\* a key accepted, then rejected, then accepted again less than TTL after the
\* rejected check
C18_Witness ==
    \E p, q \in Procs :
        /\ Rejected(q)
        /\ Accepted(p)
        /\ event_key(event[p]) = event_key(event[q])
        /\ current_time[p] > current_time[q]
        /\ current_time[p] - current_time[q] < TTL
        /\ last_accept[event_key(event[p])] = current_time[p]

\* C19 as stated: after any dedup check at time now, accepted or rejected,
\* processed_events holds no entry whose age exceeds TTL.
C19_PurgedOnEachCheck ==
    [][(\E p \in Procs : CheckStep(p))
          => \A k \in DOMAIN processed_events' : now - processed_events'[k] <= TTL
      ]_vars

\* C19 amended: after every accepted dedup check at time now,
\* processed_events holds no entry whose age is TTL or more; a rejected check
\* purges nothing.
C19_PurgedOnAcceptedCheck ==
    [][\A p \in Procs :
          /\ (CheckStep(p) /\ ~HasLog(p, "Duplicate event detected, skipping")')
             => \A k \in DOMAIN processed_events' : now - processed_events'[k] < TTL
          /\ (CheckStep(p) /\ HasLog(p, "Duplicate event detected, skipping")')
             => DOMAIN processed_events' = DOMAIN processed_events
      ]_vars

\* an accepted check has dropped the entry of another key, which had been
\* accepted before and is of age TTL or more
C19_Witness ==
    \E p \in Procs : \E k \in Keys :
        /\ Accepted(p)
        /\ current_time[p] = now
        /\ k # event_key(event[p])
        /\ last_accept[k] >= 0
        /\ now - last_accept[k] >= TTL
        /\ k \notin DOMAIN processed_events
        /\ event_key(event[p]) \in DOMAIN processed_events

\* C20: every save issued by handle_reaction carries exactly one tag, the
\* configured label of the triggering emoji; the emoji of a save is always
\* configured, so the fallback label "Read Later" is never sent.
C20_SaveTagIsLabel ==
    \A p \in Procs : \A i \in 1..Len(calls[p]) :
        calls[p][i].op = "save"
        => /\ event[p].reaction \in DOMAIN EMOJI_CONFIGS
           /\ Len(calls[p][i].tags) = 1
           /\ calls[p][i].tags[1] = EMOJI_CONFIGS[event[p].reaction].label
           /\ calls[p][i].tags[1] # "Read Later"

C20_Witness ==
    \E p \in Procs :
        /\ Len(CallsOf(p, "save")) = 1
        /\ CallsOf(p, "save")[1].tags = <<"Favourites">>
        /\ CallsOf(p, "save")[1].url = url[p].val

\* C15: every dispatched event eventually reaches the end of its processing
\* (returned after one of the terminal outcomes, or raised), whatever the
\* backend answers, given that every single call returns.
C15_EveryEventTerminates ==
    \A p \in Procs : (pc[p] = "ready") ~> (pc[p] \in {"done", "raised"})

\* the positions where a word of t starts
WordStarts(t) ==
    {i \in 1..Len(t) : t[i] \notin Whitespace /\ (i = 1 \/ t[i - 1] \in Whitespace)}

\* the first word of t, which has one
FirstWord(t) ==
    LET i == CHOOSE k \in WordStarts(t) : \A j \in WordStarts(t) : k <= j
        j == CHOOSE k \in i..Len(t) :
                 /\ \A n \in i..k : t[n] \notin Whitespace
                 /\ (k = Len(t) \/ t[k + 1] \in Whitespace)
    IN  SubSeq(t, i, j)

Colons(n) == [i \in 1..n |-> ":"]
EmojiChars(e) == IF e = "star" THEN <<"s","t","a","r">> ELSE Eyes

\* the configured emoji the word w names, colons aside
NamedEmojis(w) ==
    {e \in DOMAIN EMOJI_CONFIGS :
        \E a, b \in 0..Len(w) : w = Colons(a) \o EmojiChars(e) \o Colons(b)}

\* the command is valid with parsed date d
ValidCommand(cmd, d) ==
    /\ "text" \in DOMAIN cmd
    /\ Cardinality(WordStarts(cmd.text)) >= 2
    /\ NamedEmojis(FirstWord(cmd.text)) # {}
    /\ d \notin {NoDate, NotParsed}
    /\ Today - 365 <= d
    /\ d <= Today

\* C16: the listing is called only for a command of two parts whose emoji,
\* colons stripped, is configured and whose date parses to a day d with
\* today - 365 <= d <= today, and then once, with the emoji's label and d; in
\* every other case no listing call is made and, the Slack calls working,
\* exactly one response is sent, an ephemeral one.
C16_ListingOnlyForValidCommand ==
    /\ list_call # <<>>
       => /\ ValidCommand(command, parsed_date)
          /\ Len(list_call) = 1
          /\ \E e \in NamedEmojis(FirstWord(command.text)) :
                list_call[1] = [tag |-> EMOJI_CONFIGS[e].label, since_date |-> parsed_date]
    /\ (rpc \in {"list", "listed", "done"} /\ ~ValidCommand(command, parsed_date))
       => /\ list_call = <<>>
          /\ ~slack_failed
             => /\ Len(responses) = 1
                /\ responses[1].response_type = "ephemeral"

\* ":star: d" with the date parsed to the oldest day allowed is delegated
C16_Witness ==
    /\ command = [text |-> ColonStar \o <<" ", "d">>]
    /\ parsed_date = Today - 365
    /\ list_call = <<[tag |-> "Favourites", since_date |-> Today - 365]>>
    /\ rpc = "done"
    /\ Len(responses) = 2

\* the document carries the tag and was created on or after the day
TaggedSince(doc, tag, since_date) ==
    /\ \E i \in DOMAIN doc.tags : doc.tags[i].name = tag
    /\ doc.created_at # NoInstant
    /\ DayOf(doc.created_at) >= since_date

\* C17: when no backend call failed, the articles returned are exactly the
\* documents of the backend that carry the tag and were created on or after
\* since_date, over all pages.
C17_TaggedCreatedSince ==
    (rpc = "listed" /\ ~list_failed)
    => LET call == list_call[1]
       IN  /\ \A i \in DOMAIN articles :
                 TaggedSince(library[articles[i].title], call.tag, call.since_date)
           /\ \A j \in DOMAIN library :
                 TaggedSince(library[j], call.tag, call.since_date)
                 => \E i \in DOMAIN articles : articles[i].title = j

\* the processing of the accepted event of p ended in a failure: a failed
\* save, no message found, or a caught exception
Failed(p) ==
    /\ pc[p] = "done"
    /\ Accepted(p)
    /\ \/ HasErrorLog(p)
       \/ HasLog(p, "No message found in the conversation history")

\* C21: the record of an accepted event outlives the failure of its
\* processing: while less than TTL has passed since its check, the key is
\* still recorded with the time of that check, and a redelivery of the same
\* identity is rejected without any call, so no second save is attempted.
C21_FailureKeepsRecord ==
    [][\A p, q \in Procs :
          (/\ p # q
           /\ Failed(p)
           /\ HasIdentity(event[p])
           /\ now - current_time[p] < TTL)
          => /\ event_key(event[p]) \in DOMAIN processed_events
             /\ processed_events[event_key(event[p])] = current_time[p]
             /\ (CheckStep(q) /\ event_key(event[q]) = event_key(event[p]))
                => (/\ pc'[q] = "done"
                    /\ calls'[q] = <<>>
                    /\ HasLog(q, "Duplicate event detected, skipping")'
                    /\ processed_events' = processed_events)
      ]_vars

\* a save failed, and the redelivery of the event, later but within TTL, was
\* rejected
C21_Witness ==
    \E p, q \in Procs :
        /\ Failed(p)
        /\ save_result[p].set
        /\ ~save_result[p].success
        /\ Len(CallsOf(p, "save")) = 1
        /\ Rejected(q)
        /\ event_key(event[q]) = event_key(event[p])
        /\ current_time[q] > current_time[p]
        /\ current_time[q] - current_time[p] < TTL

\* C22: of two events of different identities handled for the same url,
\* against a backend that holds every completed save and does not fail, the
\* existence check returns False for at most one, at most one save is called
\* and at most one notification is posted.
C22_OneSavePerUrl ==
    \A p, q \in Procs :
        (/\ p # q
         /\ HasIdentity(event[p])
         /\ HasIdentity(event[q])
         /\ event_key(event[p]) # event_key(event[q])
         /\ url[p].tag = "value"
         /\ url[q] = url[p])
        => /\ ~(url_exists[p] = "False" /\ url_exists[q] = "False")
           /\ Len(CallsOf(p, "save")) + Len(CallsOf(q, "save")) <= 1
           /\ Len(CallsOf(p, "chat_postMessage")) + Len(CallsOf(q, "chat_postMessage")) <= 1

\* while the first handler waits for chat_postMessage after its save, the
\* second has run its existence check, found the url and ended
C22_Witness ==
    \E p, q \in Procs :
        /\ HasIdentity(event[p])
        /\ HasIdentity(event[q])
        /\ event_key(event[p]) # event_key(event[q])
        /\ url[p].tag = "value"
        /\ url[q] = url[p]
        /\ pc[p] = "post"
        /\ Len(CallsOf(p, "save")) = 1
        /\ url_exists[p] = "False"
        /\ pc[q] = "done"
        /\ url_exists[q] = "True"
        /\ CallsOf(q, "save") = <<>>

====
